---- MODULE Spec2Model ----
(* Mahjong front end: SocketService (core/socket.service.ts), TableScene and   *)
(* GameComponent (game/table.scene.ts) and loadPhaser (phaser loader).         *)
(* A value that may be null is a sequence: <<>> is null, <<v>> holds v.        *)
EXTENDS Integers, Sequences, FiniteSets, TLC

\* ---------------------------------------------------------------- bounds
\* longest hand the server sends
MaxHand == 3
\* most actions emitted by one SocketService
MaxSeq == 2
\* most calls of loadPhaser
MaxCalls == 5

\* ---------------------------------------------------------------- values
Null == <<>>
Some(v) == <<v>>
IsNull(o) == o = <<>>
Val(o) == o[1]

Tiles == {"B7", "J"}
\* hands of the server: empty before the deal, then full or one tile short of
\* full (after a discard); any order, duplicates of B7, one joker at most
Hands ==
  {h \in UNION {[1..n -> Tiles] : n \in {0, MaxHand - 1, MaxHand}} :
     \A i, j \in DOMAIN h : h[i] = "J" /\ h[j] = "J" => i = j}

\* PublicSnapshot restricted to the fields the scene and the component read
PublicSnaps ==
  {[phase |-> "playing", turnStage |-> "NEED_DISCARD", currentTurnSeat |-> 0, discards |-> <<"J">>,
    version |-> 3],
   [phase |-> "playing", turnStage |-> "NEED_PICK", currentTurnSeat |-> 0, discards |-> <<"J">>,
    version |-> 3],
   [phase |-> "playing", turnStage |-> "NEED_DISCARD", currentTurnSeat |-> 1, discards |-> <<>>,
    version |-> 2],
   [phase |-> "passing", turnStage |-> "NEED_DISCARD", currentTurnSeat |-> 0, discards |-> <<>>,
    version |-> 1]}

\* this player sits at seat 0
PrivateSnaps == {[seatIndex |-> 0, hand |-> h] : h \in Hands}

\* AckMsg of the server for the action that carried clientSeq = seq; error is optional
AckFor(seq) ==
  {[clientSeq |-> seq, ok |-> TRUE, error |-> Null],
   [clientSeq |-> seq, ok |-> FALSE, error |-> Null],
   [clientSeq |-> seq, ok |-> FALSE, error |-> Some("E")]}

\* ---------------------------------------------------------------- pure functions
\* occurrences of t among the first i elements of hand
RECURSIVE CountUpTo(_, _, _)
CountUpTo(hand, t, i) ==
  IF i = 0 THEN 0
  ELSE CountUpTo(hand, t, i - 1) + (IF hand[i] = t THEN 1 ELSE 0)

\* makeHandKeys: the key of position i is <<tile, occurrence number>> (the string
\* `${t}_${n}`), and keyToTileId maps each key to the tile it was made for
makeHandKeys(hand) ==
  LET keys == [i \in 1..Len(hand) |-> <<hand[i], CountUpTo(hand, hand[i], i)>>]
  IN [keys |-> keys,
      keyToTileId |-> [k \in {keys[i] : i \in 1..Len(hand)} |->
                         hand[CHOOSE i \in 1..Len(hand) : keys[i] = k]]]

Range(s) == {s[i] : i \in 1..Len(s)}

\* Array.prototype.filter
RECURSIVE Filter(_, _)
Filter(s, keep) ==
  IF s = <<>> THEN <<>>
  ELSE (IF Head(s) \in keep THEN <<Head(s)>> ELSE <<>>) \o Filter(Tail(s), keep)

\* Array.prototype.indexOf, 0-based, -1 when absent
IndexOf(s, x) ==
  IF x \in Range(s) THEN (CHOOSE i \in 1..Len(s) : s[i] = x /\ \A j \in 1..(i - 1) : s[j] # x) - 1
  ELSE -1

\* Array.prototype.splice(cur, 1) and splice(best, 0, x), cur and best 0-based
RemoveAt(s, cur) == SubSeq(s, 1, cur) \o SubSeq(s, cur + 2, Len(s))
InsertAt(s, best, x) == SubSeq(s, 1, best) \o <<x>> \o SubSeq(s, best + 1, Len(s))

\* the canDiscard test of the drop handler, the pointerup handler and onHandTileClick
canDiscard(pub, priv) ==
  /\ pub.phase = "playing"
  /\ pub.turnStage = "NEED_DISCARD"
  /\ priv.seatIndex = pub.currentTurnSeat

\* ---------------------------------------------------------------- state
VARIABLES
  \* SocketService
  sockPub, sockPriv, clientSeq, promises,
  \* GameComponent
  lastError, subscribed,
  \* TableScene
  publicSnap, privateSnap, created, prevHandLen, prevDiscardLen, prevPhase,
  handTiles, handOrder, keyToTileId, isDraggingHand, pendingSnap,
  \* Phaser input plugin: the key of the hand tile the pointer drags
  dragKey,
  \* what the last step did: a call of bridge.onHandTileClick, a socket message
  bridgeCall, sent,
  \* arguments of the latest setSnapshots call
  lastSetArgs,
  \* phaser loader
  phaserPromise, importCount, importState, loadLog

sockVars == <<sockPub, sockPriv, clientSeq, promises>>
compVars == <<lastError, subscribed>>
handVars == <<handTiles, handOrder, keyToTileId>>
diffVars == <<prevHandLen, prevDiscardLen, prevPhase>>
sceneVars == <<publicSnap, privateSnap, created, diffVars, handVars,
               isDraggingHand, pendingSnap, dragKey, lastSetArgs>>
stepVars == <<bridgeCall, sent>>
loaderVars == <<phaserPromise, importCount, importState, loadLog>>
vars == <<sockVars, compVars, sceneVars, stepVars, loaderVars>>

NoKey == <<>>

Init ==
  /\ sockPub = Null /\ sockPriv = Null /\ clientSeq = 0 /\ promises = <<>>
  /\ lastError = Null /\ subscribed = FALSE
  /\ publicSnap = Null /\ privateSnap = Null /\ created = FALSE
  /\ prevHandLen = 0 /\ prevDiscardLen = 0 /\ prevPhase = Null
  /\ handTiles = {} /\ handOrder = <<>> /\ keyToTileId = <<>>
  /\ isDraggingHand = FALSE /\ pendingSnap = Null
  /\ dragKey = NoKey
  /\ bridgeCall = Null /\ sent = Null
  /\ lastSetArgs = Null
  /\ phaserPromise = Null /\ importCount = 0 /\ importState = "none" /\ loadLog = <<>>

\* ---------------------------------------------------------------- SocketService
\* promises[n] is the promise emitAction returned for its n-th emission: the type and
\* clientSeq of the message, the socket's ack callback (waiting, delivered with ackMsg,
\* or lost), the promise's state and value, and the GameComponent method that awaits
\* it ("void" when the caller drops it)
\* emitAction: clientSeq += 1, then the message goes out with an ack callback that
\* resolves the promise made for this emission
\* emitAction incrementing clientSeq after the message is built
emitActionSeqAfter(action, awaiter) ==
  /\ clientSeq < MaxSeq
  /\ clientSeq' = clientSeq + 1
  /\ promises' = Append(promises, [type |-> action.type, seq |-> clientSeq, awaiter |-> awaiter,
                                   ack |-> "waiting", ackMsg |-> Null,
                                   state |-> "pending", value |-> Null])
  /\ sent' = Some([event |-> "game/action", clientSeq |-> clientSeq, action |-> action])

emitAction(action, awaiter) ==
  /\ clientSeq < MaxSeq
  /\ clientSeq' = clientSeq + 1
  /\ promises' = Append(promises, [type |-> action.type, seq |-> clientSeq + 1, awaiter |-> awaiter,
                                   ack |-> "waiting", ackMsg |-> Null,
                                   state |-> "pending", value |-> Null])
  /\ sent' = Some([event |-> "game/action", clientSeq |-> clientSeq + 1, action |-> action])

NoEmit == sent' = Null /\ UNCHANGED <<clientSeq, promises>>
Quiet == bridgeCall' = Null /\ NoEmit

\* ---------------------------------------------------------------- TableScene
\* syncAndDrawHand reversing priv.hand in place before it makes the keys
syncAndDrawHandInPlace(order, tiles, priv) ==
  LET hand == [i \in 1..Len(priv.hand) |-> priv.hand[Len(priv.hand) + 1 - i]]
      made == makeHandKeys(hand)
      kept == Filter(order, Range(made.keys))
      missing == Filter(made.keys, Range(made.keys) \ Range(kept))
      newOrder == IF Len(order) = 0 THEN made.keys ELSE kept \o missing
  IN [handOrder |-> newOrder,
      handTiles |-> (tiles \cup Range(newOrder)) \cap Range(made.keys),
      keyToTileId |-> made.keyToTileId,
      hand |-> hand]

\* syncAndDrawHand keeping in the local order the keys the snapshot no longer has
syncAndDrawHandKeepsGone(order, tiles, priv) ==
  LET made == makeHandKeys(priv.hand)
      missing == Filter(made.keys, Range(made.keys) \ Range(order))
      newOrder == IF Len(order) = 0 THEN made.keys ELSE order \o missing
  IN [handOrder |-> newOrder,
      handTiles |-> (tiles \cup Range(newOrder)) \cap Range(made.keys),
      keyToTileId |-> made.keyToTileId,
      hand |-> priv.hand]

\* syncAndDrawHand taking the snapshot's order over the local one
syncAndDrawHandReset(order, tiles, priv) ==
  LET made == makeHandKeys(priv.hand)
  IN [handOrder |-> made.keys,
      handTiles |-> Range(made.keys),
      keyToTileId |-> made.keyToTileId,
      hand |-> priv.hand]

\* syncAndDrawHand: reconcile the local order and the tile objects with priv.hand.
\* hand is priv.hand as the call leaves it (the array is shared with the snapshot)
syncAndDrawHand(order, tiles, priv) ==
  LET made == makeHandKeys(priv.hand)
      keys == made.keys
      setNow == Range(keys)
      kept == Filter(order, setNow)
      missing == Filter(keys, setNow \ Range(kept))
      newOrder == IF Len(order) = 0 THEN keys ELSE kept \o missing
  IN [handOrder |-> newOrder,
      handTiles |-> (tiles \cup Range(newOrder)) \cap setNow,
      keyToTileId |-> made.keyToTileId,
      hand |-> priv.hand]

\* renderAll with the scene's snapshots being pub and priv: the hand is synced when
\* both are present, then the diff memory is stored. The result is the scene's hand
\* state and diff memory after the call, and the two snapshot objects as it leaves them
renderAll(isCreated, pub, priv) ==
  LET both == ~IsNull(pub) /\ ~IsNull(priv)
      h == syncAndDrawHand(handOrder, handTiles, Val(priv))
      privOut == IF isCreated /\ both THEN Some([Val(priv) EXCEPT !.hand = h.hand]) ELSE priv
  IN [pub |-> pub,
      priv |-> privOut,
      handOrder |-> IF isCreated /\ both THEN h.handOrder ELSE handOrder,
      handTiles |-> IF isCreated /\ both THEN h.handTiles ELSE handTiles,
      keyToTileId |-> IF isCreated /\ both THEN h.keyToTileId ELSE keyToTileId,
      prevHandLen |-> IF ~isCreated THEN prevHandLen
                      ELSE IF IsNull(privOut) THEN 0 ELSE Len(Val(privOut).hand),
      prevDiscardLen |-> IF ~isCreated THEN prevDiscardLen
                         ELSE IF IsNull(pub) THEN 0 ELSE Len(Val(pub).discards),
      prevPhase |-> IF ~isCreated THEN prevPhase
                    ELSE IF IsNull(pub) THEN Null ELSE Some(Val(pub).phase)]

\* the scene's fields after a renderAll that returned r
Rendered(r) ==
  /\ publicSnap' = r.pub
  /\ privateSnap' = r.priv
  /\ handOrder' = r.handOrder
  /\ handTiles' = r.handTiles
  /\ keyToTileId' = r.keyToTileId
  /\ prevHandLen' = r.prevHandLen
  /\ prevDiscardLen' = r.prevDiscardLen
  /\ prevPhase' = r.prevPhase

\* setSnapshots without the isDraggingHand test
setSnapshotsNoQueue(pub, priv) ==
  /\ lastSetArgs' = Some([pub |-> pub, priv |-> priv])
  /\ Rendered(renderAll(created, pub, priv))
  /\ UNCHANGED pendingSnap

\* setSnapshots(pub, priv)
setSnapshots(pub, priv) ==
  /\ lastSetArgs' = Some([pub |-> pub, priv |-> priv])
  /\ IF isDraggingHand
     THEN /\ pendingSnap' = Some([pub |-> pub, priv |-> priv])
          /\ UNCHANGED <<publicSnap, privateSnap, handVars, diffVars>>
     ELSE /\ Rendered(renderAll(created, pub, priv))
          /\ UNCHANGED pendingSnap

\* the insertion without the removal
MoveKeyNoRemove(s, cur, best) == InsertAt(s, best, s[cur + 1])

\* splice(cur, 1) then splice(best, 0, key), cur and best 0-based
MoveKey(s, cur, best) == InsertAt(RemoveAt(s, cur), best, s[cur + 1])

\* previewReorder(key, dragX, dragY): inRack is dragY >= h * 0.45, best the index of
\* the slot nearest to the pointer
previewReorder(order, key, inRack, best) ==
  LET cur == IndexOf(order, key)
  IN IF Len(order) = 0 \/ ~inRack \/ cur < 0 \/ cur = best
     THEN order
     ELSE MoveKey(order, cur, best)

\* onHandTileClick trusting the scene's own test
onHandTileClickUnchecked(tileId, handIndex) ==
  emitAction([type |-> "DISCARD", tileId |-> tileId], "void")

\* bridge.onHandTileClick of GameComponent.ngAfterViewInit
onHandTileClick(tileId, handIndex) ==
  IF /\ ~IsNull(sockPub) /\ ~IsNull(sockPriv)
     /\ Val(sockPub).phase # "passing"
     /\ canDiscard(Val(sockPub), Val(sockPriv))
  THEN emitAction([type |-> "DISCARD", tileId |-> tileId], "void")
  ELSE NoEmit

\* the bridge call without the turn-stage test
discardByKeyAnyStage(key, via) ==
  IF /\ ~IsNull(publicSnap) /\ ~IsNull(privateSnap)
     /\ Val(publicSnap).phase = "playing"
     /\ Val(privateSnap).seatIndex = Val(publicSnap).currentTurnSeat
     /\ key \in DOMAIN keyToTileId
  THEN /\ bridgeCall' = Some([tileId |-> keyToTileId[key], handIndex |-> IndexOf(handOrder, key),
                              key |-> key, via |-> via])
       /\ onHandTileClick(keyToTileId[key], IndexOf(handOrder, key))
  ELSE Quiet

\* the part the drop handler and the pointerup handler share: the canDiscard test on
\* the scene's snapshots and the bridge call; via is "drop" or "dblclick"
discardByKey(key, via) ==
  IF /\ ~IsNull(publicSnap) /\ ~IsNull(privateSnap)
     /\ canDiscard(Val(publicSnap), Val(privateSnap))
     /\ key \in DOMAIN keyToTileId
  THEN /\ bridgeCall' = Some([tileId |-> keyToTileId[key], handIndex |-> IndexOf(handOrder, key),
                              key |-> key, via |-> via])
       /\ onHandTileClick(keyToTileId[key], IndexOf(handOrder, key))
  ELSE Quiet

\* the 'drop' handler for hand tile key dropped onto the discard zone (the only
\* drop zone of the scene)
drop(key) == discardByKey(key, "drop")

\* dragend applying the queued pair without clearing pendingSnap
dragendKeepsQueue ==
  /\ isDraggingHand' = FALSE
  /\ IF ~IsNull(pendingSnap)
     THEN /\ pendingSnap' = pendingSnap
          /\ Rendered(renderAll(created, Val(pendingSnap).pub, Val(pendingSnap).priv))
     ELSE UNCHANGED <<pendingSnap, publicSnap, privateSnap, handVars, diffVars>>

\* dragend forgetting the queued pair
dragendDropsQueue ==
  /\ isDraggingHand' = FALSE
  /\ pendingSnap' = Null
  /\ UNCHANGED <<publicSnap, privateSnap, handVars, diffVars>>

\* the 'dragend' handler: the drag is over and a queued pair of snapshots is applied
dragend ==
  /\ isDraggingHand' = FALSE
  /\ IF ~IsNull(pendingSnap)
     THEN /\ pendingSnap' = Null
          /\ Rendered(renderAll(created, Val(pendingSnap).pub, Val(pendingSnap).priv))
     ELSE UNCHANGED <<pendingSnap, publicSnap, privateSnap, handVars, diffVars>>

\* ---------------------------------------------------------------- server events
\* a subject that keeps a held snapshot when the arriving one has a lower version
subjectNextIfNewer(held, snap) ==
  IF IsNull(held) \/ "version" \notin DOMAIN snap \/ snap.version >= Val(held).version
  THEN Some(snap)
  ELSE held

\* BehaviorSubject.next(snap): the value held after it, held being the one before
subjectNext(held, snap) == Some(snap)

\* socket.on('room/public'): public$.next(snap), whose subscriber (once
\* ngAfterViewInit has subscribed) calls scene.setSnapshots(pub, private$.value)
ServerPublic(snap) ==
  /\ sockPub' = subjectNext(sockPub, snap)
  /\ IF subscribed
     THEN setSnapshots(sockPub', sockPriv)
     ELSE UNCHANGED <<publicSnap, privateSnap, handVars, diffVars, pendingSnap, lastSetArgs>>
  /\ Quiet
  /\ UNCHANGED <<sockPriv, compVars, created, isDraggingHand, dragKey, loaderVars>>

\* socket.on('room/private')
ServerPrivate(snap) ==
  /\ sockPriv' = subjectNext(sockPriv, snap)
  /\ IF subscribed
     THEN setSnapshots(sockPub, sockPriv')
     ELSE UNCHANGED <<publicSnap, privateSnap, handVars, diffVars, pendingSnap, lastSetArgs>>
  /\ Quiet
  /\ UNCHANGED <<sockPub, compVars, created, isDraggingHand, dragKey, loaderVars>>

\* ---------------------------------------------------------------- GameComponent and scene life cycle
\* ngAfterViewInit: the scene object is made and both subjects are subscribed; a
\* BehaviorSubject replays its value, so setSnapshots runs at once (twice, with the
\* same pair, on a scene that is not created yet)
NgAfterViewInit ==
  /\ ~subscribed
  /\ subscribed' = TRUE
  /\ setSnapshots(sockPub, sockPriv)
  /\ Quiet
  /\ UNCHANGED <<sockPub, sockPriv, lastError, created, isDraggingHand, dragKey, loaderVars>>

\* TableScene.create, run by Phaser when the game has booted
SceneCreate ==
  /\ subscribed /\ ~created
  /\ created' = TRUE
  /\ Rendered(renderAll(TRUE, publicSnap, privateSnap))
  /\ Quiet
  /\ UNCHANGED <<sockPub, sockPriv, compVars, isDraggingHand, pendingSnap,
                 dragKey, lastSetArgs, loaderVars>>

\* the RESIZE handler: layout, redrawFelt, renderAll
Resize ==
  /\ created
  /\ Rendered(renderAll(created, publicSnap, privateSnap))
  /\ Quiet
  /\ UNCHANGED <<sockPub, sockPriv, compVars, created, isDraggingHand,
                 pendingSnap, dragKey, lastSetArgs, loaderVars>>

\* ---------------------------------------------------------------- drag and drop
\* 'dragstart' of hand tile key (only hand tiles are draggable)
DragStart(key) ==
  /\ created /\ dragKey = NoKey /\ key \in handTiles
  /\ isDraggingHand' = TRUE
  /\ dragKey' = key
  /\ Quiet
  /\ UNCHANGED <<sockPub, sockPriv, compVars, publicSnap, privateSnap, created, handVars, diffVars,
                 pendingSnap, lastSetArgs, loaderVars>>

\* 'drag': the tile follows the pointer and previewReorder moves its key
Drag(inRack, best) ==
  /\ dragKey # NoKey
  /\ handOrder' = previewReorder(handOrder, dragKey, inRack, best)
  /\ Quiet
  /\ UNCHANGED <<sockPub, sockPriv, compVars, publicSnap, privateSnap, created, handTiles, keyToTileId,
                 diffVars, isDraggingHand, pendingSnap, dragKey, lastSetArgs, loaderVars>>

\* the pointer is released during a drag: Phaser emits 'drop' when the tile is over
\* the discard zone, and then 'dragend', within one input event
PointerRelease(overZone) ==
  /\ dragKey # NoKey
  /\ IF overZone THEN drop(dragKey) ELSE Quiet
  /\ dragend
  /\ dragKey' = NoKey
  /\ UNCHANGED <<sockPub, sockPriv, compVars, created, lastSetArgs, loaderVars>>

\* 'pointerup' on hand tile key. lastClickKey and lastClickAt are read and written
\* by this handler alone and record the user's previous click, so the test on them
\* is an input: doubleClick is lastClickKey === key && Date.now() - lastClickAt <= 280
PointerUp(key, doubleClick) ==
  /\ created /\ key \in handTiles
  /\ IF isDraggingHand \/ ~doubleClick
     THEN Quiet
     ELSE discardByKey(key, "dblclick")
  /\ UNCHANGED <<sockPub, sockPriv, compVars, publicSnap, privateSnap, created, handVars, diffVars,
                 isDraggingHand, pendingSnap, dragKey, lastSetArgs, loaderVars>>

NextScene ==
  \/ \E snap \in PublicSnaps : ServerPublic(snap)
  \/ \E snap \in PrivateSnaps : ServerPrivate(snap)
  \/ NgAfterViewInit
  \/ SceneCreate
  \/ Resize
  \/ \E key \in handTiles : DragStart(key)
  \/ \E inRack \in BOOLEAN, best \in 0..(Len(handOrder) - 1) : Drag(inRack, best)
  \/ \E overZone \in BOOLEAN : PointerRelease(overZone)
  \/ \E key \in handTiles, doubleClick \in BOOLEAN : PointerUp(key, doubleClick)

SpecScene == Init /\ [][NextScene]_vars

\* ---------------------------------------------------------------- acknowledgements
\* one resolve kept in a field of the service: the latest promise is resolved
ackCallbackLatest(n) == Len(promises)

\* the promise that the ack callback given to the n-th emission resolves: the
\* closure (ack) => resolve(ack) holds the resolve of its own promise
ackCallback(n) == n

\* resolve(ack) on promise m; a settled promise stays as it is
resolvePromise(ps, m, ack) ==
  IF ps[m].state = "pending"
  THEN [ps EXCEPT ![m].state = "resolved", ![m].value = Some(ack)]
  ELSE ps

\* every method falling back to 'ERR'
afterAwaitOneDefault(awaiter, ack) ==
  IF awaiter # "void" /\ ~ack.ok
  THEN lastError' = Some(IF IsNull(ack.error) THEN "ERR" ELSE Val(ack.error))
  ELSE UNCHANGED lastError

\* the rest of the async method that awaited the promise, run with its ack
afterAwait(awaiter, ack) ==
  LET fallback == CASE awaiter = "start" -> "ERR"
                    [] awaiter = "pick" -> "PICK_FAILED"
                    [] awaiter = "endGame" -> "END_FAILED"
                    [] OTHER -> "PASS_FAILED"
  IN IF awaiter # "void" /\ ~ack.ok
     THEN lastError' = Some(IF IsNull(ack.error) THEN fallback ELSE Val(ack.error))
     ELSE UNCHANGED lastError

\* the server acknowledges the n-th emission: socket.io calls its ack callback
AckArrives(n, ack) ==
  /\ n \in 1..Len(promises) /\ promises[n].ack = "waiting"
  /\ ack \in AckFor(promises[n].seq)
  /\ LET m == ackCallback(n)
         delivered == [promises EXCEPT ![n].ack = "delivered", ![n].ackMsg = Some(ack)]
     IN /\ promises' = resolvePromise(delivered, m, ack)
        /\ IF promises[m].state = "pending"
           THEN afterAwait(promises[m].awaiter, ack)
           ELSE UNCHANGED lastError
  /\ bridgeCall' = Null /\ sent' = Null
  /\ UNCHANGED <<sockPub, sockPriv, clientSeq, subscribed, sceneVars, loaderVars>>

\* the acknowledgement of the n-th emission never arrives (the connection drops or
\* the server stays silent): no callback runs, emitAction sets no timeout and the
\* 'disconnect' handler only logs
AckLost(n) ==
  /\ n \in 1..Len(promises) /\ promises[n].ack = "waiting"
  /\ promises' = [promises EXCEPT ![n].ack = "lost"]
  /\ bridgeCall' = Null /\ sent' = Null
  /\ UNCHANGED <<sockPub, sockPriv, clientSeq, compVars, sceneVars, loaderVars>>

\* ---------------------------------------------------------------- GameComponent methods
\* join(): 'room/join' is emitted without clientSeq and without ack
Join ==
  /\ sent' = Some([event |-> "room/join"])
  /\ bridgeCall' = Null
  /\ UNCHANGED <<sockVars, compVars, sceneVars, loaderVars>>

\* start(), pick(), endGame(), submitPass(): lastError = null, then the action is
\* awaited
Awaited(method, action) ==
  /\ lastError' = Null
  /\ emitAction(action, method)
  /\ bridgeCall' = Null
  /\ UNCHANGED <<sockPub, sockPriv, subscribed, sceneVars, loaderVars>>

Start == Awaited("start", [type |-> "START_GAME"])
Pick == Awaited("pick", [type |-> "PICK"])
EndGame == Awaited("endGame", [type |-> "END_GAME"])
\* submitPass with the selected tiles (selectedIdx.size = need)
SubmitPass(tiles) == Awaited("submitPass", [type |-> "PASS_SUBMIT", tiles |-> tiles])

\* a SocketService method whose promise the caller drops (void this.sock.x(...))
Dropped(action) ==
  /\ emitAction(action, "void")
  /\ bridgeCall' = Null
  /\ UNCHANGED <<sockPub, sockPriv, compVars, sceneVars, loaderVars>>

ClaimPass == Dropped([type |-> "CLAIM", kind |-> "PASS"])
ClaimPung == Dropped([type |-> "CLAIM", kind |-> "PUNG"])
ClaimKong == Dropped([type |-> "CLAIM", kind |-> "KONG"])
\* discardFirst: the first tile of the hand is discarded, whatever the turn
Discard(tileId) == Dropped([type |-> "DISCARD", tileId |-> tileId])

NextSock ==
  \/ Join
  \/ Start
  \/ Pick
  \/ EndGame
  \/ ClaimPass
  \/ ClaimPung
  \/ ClaimKong
  \/ \E tileId \in Tiles : Discard(tileId)
  \/ SubmitPass(<<"B7", "B7", "J">>)
  \/ \E n \in 1..Len(promises), ok \in BOOLEAN, error \in {Null, Some("E")} :
       AckArrives(n, [clientSeq |-> promises[n].seq, ok |-> ok, error |-> error])
  \/ \E n \in 1..Len(promises) : AckLost(n)

SpecSock == Init /\ [][NextSock]_vars

\* ---------------------------------------------------------------- the service feeding a scene
\* SocketService receiving snapshots while actions and acks are in flight, with the
\* component subscribed and a hand tile picked up, so that the scene keeps for the
\* length of the drag a snapshot the service held before
FeedPrivate == {p \in PrivateSnaps : \A i \in 1..Len(p.hand) : p.hand[i] = "B7"}
FeedAcks(seq) == {a \in AckFor(seq) : a.ok \/ ~IsNull(a.error)}
NextFeed ==
  \/ \E snap \in PublicSnaps : ServerPublic(snap)
  \/ \E snap \in FeedPrivate : ServerPrivate(snap)
  \/ NgAfterViewInit
  \/ SceneCreate
  \/ \E key \in handTiles : DragStart(key)
  \/ Join
  \/ ClaimPass
  \/ \E n \in 1..Len(promises) : \E ack \in FeedAcks(promises[n].seq) : AckArrives(n, ack)
  \/ \E n \in 1..Len(promises) : AckLost(n)

SpecFeed == Init /\ [][NextFeed]_vars

\* ---------------------------------------------------------------- phaser loader
\* Promise.reject('Phaser can only load in the browser'), made by call callNo
Rejected(callNo) ==
  [id |-> callNo, kind |-> "rejected", reason |-> "Phaser can only load in the browser"]

\* loadPhaser keeping the rejected promise
loadPhaserCachesRejection(cache, hasWindow, callNo) ==
  IF ~IsNull(cache)
  THEN [ret |-> Val(cache), cache |-> cache, imported |-> FALSE]
  ELSE IF ~hasWindow
  THEN [ret |-> Rejected(callNo), cache |-> Some(Rejected(callNo)), imported |-> FALSE]
  ELSE [ret |-> [id |-> callNo, kind |-> "import"],
        cache |-> Some([id |-> callNo, kind |-> "import"]), imported |-> TRUE]

\* loadPhaser without the cache test
loadPhaserNoCache(cache, hasWindow, callNo) ==
  IF ~hasWindow
  THEN [ret |-> Rejected(callNo), cache |-> cache, imported |-> FALSE]
  ELSE [ret |-> [id |-> callNo, kind |-> "import"],
        cache |-> Some([id |-> callNo, kind |-> "import"]), imported |-> TRUE]

\* loadPhaser() as its callNo-th call, hasWindow being typeof window !== 'undefined';
\* a promise object is named by the call that made it
loadPhaser(cache, hasWindow, callNo) ==
  IF ~IsNull(cache)
  THEN [ret |-> Val(cache), cache |-> cache, imported |-> FALSE]
  ELSE IF ~hasWindow
  THEN [ret |-> Rejected(callNo), cache |-> cache, imported |-> FALSE]
  ELSE [ret |-> [id |-> callNo, kind |-> "import"],
        cache |-> Some([id |-> callNo, kind |-> "import"]), imported |-> TRUE]

LoadPhaser(hasWindow) ==
  /\ Len(loadLog) < MaxCalls
  /\ LET r == loadPhaser(phaserPromise, hasWindow, Len(loadLog) + 1)
     IN /\ phaserPromise' = r.cache
        /\ importCount' = importCount + (IF r.imported THEN 1 ELSE 0)
        /\ importState' = (IF r.imported THEN "pending" ELSE importState)
        /\ loadLog' = Append(loadLog, [window |-> hasWindow, ret |-> r.ret])
  /\ UNCHANGED <<sockVars, compVars, sceneVars, stepVars>>

\* the dynamic import('phaser') settles
ImportSettles(ok) ==
  /\ importState = "pending"
  /\ importState' = (IF ok THEN "resolved" ELSE "rejected")
  /\ UNCHANGED <<phaserPromise, importCount, loadLog, sockVars, compVars, sceneVars, stepVars>>

NextLoader ==
  \/ \E hasWindow \in BOOLEAN : LoadPhaser(hasWindow)
  \/ \E ok \in BOOLEAN : ImportSettles(ok)

SpecLoader == Init /\ [][NextLoader]_vars

\* ================================================================ claims
\* ---------------------------------------------------------------- C1
\* C1: the promise of an action is resolved exactly when the ack callback of that
\* same emission has been called, and then with the very AckMsg the callback got,
\* ok or not; an ack of another emission leaves the promise pending.
C1_AckResolvesOwnPromise ==
  \A n \in 1..Len(promises) :
    /\ promises[n].ack = "delivered" =>
         promises[n].state = "resolved" /\ promises[n].value = promises[n].ackMsg
    /\ promises[n].ack # "delivered" =>
         promises[n].state = "pending" /\ IsNull(promises[n].value)

\* two actions are outstanding and the second is acknowledged first, with ok = false
C1_Witness ==
  /\ Len(promises) = 2
  /\ promises[1].state = "pending" /\ promises[1].ack = "waiting"
  /\ promises[2].state = "resolved" /\ ~Val(promises[2].value).ok

\* ---------------------------------------------------------------- helpers of the scene claims
Before(s, a, b) == IndexOf(s, a) < IndexOf(s, b)
Count(s, x) == Cardinality({i \in 1..Len(s) : s[i] = x})
IsPermutation(s, t) ==
  /\ Len(s) = Len(t)
  /\ \A x \in Range(s) \cup Range(t) : Count(s, x) = Count(t, x)
B71 == <<"B7", 1>>
B72 == <<"B7", 2>>
B73 == <<"B7", 3>>
J1 == <<"J", 1>>
DragStartStep == \E key \in handTiles : DragStart(key)
DragStep == \E inRack \in BOOLEAN, best \in 0..(Len(handOrder) - 1) : Drag(inRack, best)
ReleaseStep == \E overZone \in BOOLEAN : PointerRelease(overZone)
QueuedPub == IF IsNull(pendingSnap) THEN {} ELSE {Val(pendingSnap).pub}
QueuedPriv == IF IsNull(pendingSnap) THEN {} ELSE {Val(pendingSnap).priv}

\* ---------------------------------------------------------------- C2
\* C2: a setSnapshots call made while isDraggingHand is true stores its two
\* arguments in pendingSnap and leaves publicSnap, privateSnap, handOrder,
\* keyToTileId, the hand tile objects and what a render writes (the diff memory)
\* as they were.
C2_DragQueuesSnapshots ==
  [][/\ \A snap \in PublicSnaps :
          isDraggingHand /\ subscribed /\ ServerPublic(snap) =>
            /\ pendingSnap' = Some([pub |-> Some(snap), priv |-> sockPriv])
            /\ UNCHANGED <<publicSnap, privateSnap, handOrder, keyToTileId, handTiles, diffVars>>
     /\ \A snap \in PrivateSnaps :
          isDraggingHand /\ subscribed /\ ServerPrivate(snap) =>
            /\ pendingSnap' = Some([pub |-> sockPub, priv |-> Some(snap)])
            /\ UNCHANGED <<publicSnap, privateSnap, handOrder, keyToTileId, handTiles, diffVars>>
    ]_vars

\* a drag is in progress and the queued private snapshot is not the shown one
C2_Witness ==
  /\ isDraggingHand /\ dragKey # NoKey
  /\ ~IsNull(pendingSnap)
  /\ Val(pendingSnap).priv # privateSnap
  /\ Range(handOrder) # Range(makeHandKeys(Val(Val(pendingSnap).priv).hand).keys)

\* ---------------------------------------------------------------- C3
\* C3: a dragend that finds a queued pair makes that pair, which is the pair of the
\* latest setSnapshots call, the scene's snapshots, clears pendingSnap and renders
\* (diff memory and hand follow the new pair); and whenever no hand drag is in
\* progress the scene's snapshots are the arguments of the latest setSnapshots call.
C3_DragEndAppliesLatest ==
  [][/\ (~IsNull(pendingSnap) /\ ReleaseStep) =>
          /\ pendingSnap = lastSetArgs
          /\ publicSnap' = Val(pendingSnap).pub
          /\ privateSnap' = Val(pendingSnap).priv
          /\ pendingSnap' = Null
          /\ prevPhase' = (IF IsNull(publicSnap') THEN Null ELSE Some(Val(publicSnap').phase))
          /\ prevHandLen' = (IF IsNull(privateSnap') THEN 0 ELSE Len(Val(privateSnap').hand))
          /\ (~IsNull(publicSnap') /\ ~IsNull(privateSnap') =>
                /\ Range(handOrder') = Range(makeHandKeys(Val(privateSnap').hand).keys)
                /\ handTiles' = Range(handOrder'))
     /\ (~isDraggingHand' /\ ~IsNull(lastSetArgs')) =>
          /\ publicSnap' = Val(lastSetArgs').pub
          /\ privateSnap' = Val(lastSetArgs').priv
    ]_vars

\* the tile was dropped for a discard and the pair applied at its dragend no
\* longer allows one
C3_Witness ==
  /\ ~IsNull(bridgeCall) /\ Val(bridgeCall).via = "drop"
  /\ ~isDraggingHand /\ IsNull(pendingSnap)
  /\ ~canDiscard(Val(publicSnap), Val(privateSnap))
  /\ Val(bridgeCall).key \in Range(handOrder)

\* ---------------------------------------------------------------- C4
\* C4: a step that changes handOrder and is not a drag reorder (so every
\* application of a snapshot that touches the hand) keeps the relative order in handOrder of the keys present before and after it,
\* and puts the new keys after all kept keys, in the order of the snapshot's hand.
C4_OrderSurvivesSnapshot ==
  [][\/ handOrder' = handOrder
     \/ DragStep
     \/ LET kept == Range(handOrder) \cap Range(handOrder')
            fresh == Range(handOrder') \ Range(handOrder)
            snapKeys == IF IsNull(privateSnap') THEN <<>>
                        ELSE makeHandKeys(Val(privateSnap').hand).keys
        IN /\ \A a, b \in kept : Before(handOrder, a, b) <=> Before(handOrder', a, b)
           /\ \A a \in kept, b \in fresh : Before(handOrder', a, b)
           /\ fresh \subseteq Range(snapKeys)
           /\ \A a, b \in fresh : Before(handOrder', a, b) <=> Before(snapKeys, a, b)
    ]_vars

\* the joker was dropped while a hand of three B7 was queued: the two B7 kept their
\* local order (the second before the first) and the new key came last
C4_Witness ==
  /\ ~IsNull(bridgeCall) /\ Val(bridgeCall).via = "drop" /\ Val(bridgeCall).key = J1
  /\ handOrder = <<B72, B71, B73>>

\* ---------------------------------------------------------------- C5
\* C5: bridge.onHandTileClick is called only by a drop onto the discard zone or a
\* double click, only when the scene's snapshots are both present with phase
\* 'playing', turnStage 'NEED_DISCARD' and seatIndex = currentTurnSeat; tileId is
\* the tile of the acted-on key and handIndex that key's index in handOrder.
C5_BridgeOnlyForDiscard ==
  [][~IsNull(bridgeCall') =>
       LET c == Val(bridgeCall')
       IN /\ \/ c.via = "drop" /\ PointerRelease(TRUE) /\ c.key = dragKey
             \/ c.via = "dblclick" /\ PointerUp(c.key, TRUE) /\ ~isDraggingHand
          /\ ~IsNull(publicSnap) /\ ~IsNull(privateSnap)
          /\ Val(publicSnap).phase = "playing"
          /\ Val(publicSnap).turnStage = "NEED_DISCARD"
          /\ Val(privateSnap).seatIndex = Val(publicSnap).currentTurnSeat
          /\ c.key \in handTiles
          /\ c.tileId = c.key[1]
          /\ c.handIndex >= 0 /\ c.handIndex < Len(handOrder)
          /\ handOrder[c.handIndex + 1] = c.key
    ]_vars

\* a double click on the second B7, which a drag had put first in the hand
C5_Witness ==
  /\ ~IsNull(bridgeCall) /\ Val(bridgeCall).via = "dblclick"
  /\ Val(bridgeCall).key = B72 /\ Val(bridgeCall).handIndex = 0
  /\ Len(handOrder) = 3

\* ---------------------------------------------------------------- C6
\* C6: a DISCARD goes out only when the snapshots held by SocketService are both
\* present with phase 'playing', turnStage 'NEED_DISCARD' and seatIndex =
\* currentTurnSeat, also when the scene tested older snapshots.
C6_DiscardOnlyOnOwnTurn ==
  [][(~IsNull(sent') /\ Val(sent').event = "game/action" /\ Val(sent').action.type = "DISCARD") =>
       /\ ~IsNull(sockPub) /\ ~IsNull(sockPriv)
       /\ Val(sockPub).phase = "playing"
       /\ Val(sockPub).turnStage = "NEED_DISCARD"
       /\ Val(sockPriv).seatIndex = Val(sockPub).currentTurnSeat
    ]_vars

\* a DISCARD went out for a dropped tile whose key the queued snapshot removed
C6_Witness ==
  /\ ~IsNull(sent) /\ Val(sent).action.type = "DISCARD"
  /\ ~IsNull(bridgeCall) /\ Val(bridgeCall).via = "drop"
  /\ Val(bridgeCall).key \notin Range(handOrder)

C9_SnapshotsImmutable ==
  [][/\ publicSnap' \in {publicSnap, sockPub'} \cup QueuedPub
     /\ privateSnap' \in {privateSnap, sockPriv'} \cup QueuedPriv
     /\ pendingSnap' \in {Null, pendingSnap, Some([pub |-> sockPub', priv |-> sockPriv'])}
     /\ sockPub' # sockPub => \E snap \in PublicSnaps : ServerPublic(snap)
     /\ sockPriv' # sockPriv => \E snap \in PrivateSnaps : ServerPrivate(snap)
    ]_vars

\* the hand is shown in a local order while the snapshot still reads B7, J, B7
C9_Witness ==
  /\ created /\ dragKey = NoKey
  /\ ~IsNull(privateSnap) /\ privateSnap = sockPriv
  /\ Val(privateSnap).hand = <<"B7", "J", "B7">>
  /\ handOrder = <<B72, J1, B71>>

\* ---------------------------------------------------------------- C8
\* C8: an action whose acknowledgement never arrives ends in a rejected promise,
\* and the awaiting method's catch branch has set lastError to its
\* *_TIMEOUT_OR_DISCONNECT value if no later method reset it.
C8_LostAckRejects ==
  \A n \in 1..Len(promises) :
    promises[n].ack = "lost" =>
      /\ promises[n].state = "rejected"
      /\ (n = Len(promises) /\ promises[n].awaiter = "start" =>
            lastError = Some("START_TIMEOUT_OR_DISCONNECT"))
      /\ (n = Len(promises) /\ promises[n].awaiter = "pick" =>
            lastError = Some("PICK_TIMEOUT_OR_DISCONNECT"))

\* ---------------------------------------------------------------- C10
\* C10: the import is started at most once, and once a call was made with window
\* defined every later call returns the promise object that call returned.
C10_ImportOnce ==
  /\ importCount <= 1
  /\ \A i, j \in 1..Len(loadLog) :
       i < j /\ loadLog[i].window => loadLog[j].ret = loadLog[i].ret

\* a browser call after a server-side call, followed by two more calls
C10_Witness ==
  /\ Len(loadLog) >= 4
  /\ ~loadLog[1].window /\ loadLog[2].window
  /\ importCount = 1 /\ loadLog[4].ret = loadLog[2].ret

\* ---------------------------------------------------------------- C11
\* C11: as long as no call was made with window defined, every call returns its own
\* promise rejected with 'Phaser can only load in the browser', no import is
\* started and phaserPromise stays null; the first call made with window defined
\* then starts the import and returns its promise, which phaserPromise holds.
NoWindowBefore(i) == \A j \in 1..(i - 1) : ~loadLog[j].window
C11_ServerSideRejects ==
  /\ \A i \in 1..Len(loadLog) :
        NoWindowBefore(i) =>
          IF loadLog[i].window
          THEN /\ loadLog[i].ret = [id |-> i, kind |-> "import"]
               /\ phaserPromise = Some(loadLog[i].ret)
               /\ importCount = 1
          ELSE loadLog[i].ret = Rejected(i)
  /\ NoWindowBefore(Len(loadLog) + 1) =>
        IsNull(phaserPromise) /\ importCount = 0 /\ importState = "none"

\* two calls on the server side, then one in the browser whose import succeeded
C11_Witness ==
  /\ Len(loadLog) = 3
  /\ ~loadLog[1].window /\ ~loadLog[2].window /\ loadLog[3].window
  /\ loadLog[2].ret.kind = "rejected" /\ loadLog[3].ret.kind = "import"
  /\ importState = "resolved"

\* ---------------------------------------------------------------- C12
\* C12: the hand tile objects are those of the keys in handOrder, and once the
\* scene is created with both snapshots present (every such state follows a render
\* and any number of previewReorder calls) handOrder holds each key of
\* makeHandKeys(privateSnap.hand) exactly once and nothing else.
C12_HandMatchesSnapshot ==
  /\ handTiles = Range(handOrder)
  /\ (created /\ ~IsNull(publicSnap) /\ ~IsNull(privateSnap)) =>
        LET keys == makeHandKeys(Val(privateSnap).hand).keys
        IN /\ Range(handOrder) = Range(keys)
           /\ \A k \in Range(keys) : Count(handOrder, k) = 1
           /\ Len(handOrder) = Len(Val(privateSnap).hand)

\* a hand of three B7 was rendered and the drag of the first B7 has moved it last
C12_Witness ==
  /\ created /\ dragKey = B71 /\ ~IsNull(publicSnap) /\ ~IsNull(privateSnap)
  /\ Val(privateSnap).hand = <<"B7", "B7", "B7">>
  /\ handOrder = <<B72, B73, B71>>
  /\ handTiles = {B71, B72, B73}

\* ---------------------------------------------------------------- C13
\* the tile ids the hand shows from left to right: the label of the tile object of
\* key k is keyToTileId[k]
Displayed == [i \in 1..Len(handOrder) |-> keyToTileId[handOrder[i]]]
\* new is old with one occurrence of t removed
IsRemoval(old, new, t) == \E j \in 1..Len(old) : old[j] = t /\ new = RemoveAt(old, j - 1)

\* C13: when the last step discarded the tile shown at position handIndex (the
\* bridge was called and DISCARD was sent) and the private snapshot that arrives
\* next is the hand with one occurrence of that tile id removed, the hand then
\* shows the previous sequence of tile ids with position handIndex removed.
C13_DiscardRemovesShownTile ==
  [][\A snap \in PrivateSnaps :
       (/\ ~IsNull(bridgeCall) /\ ~IsNull(sent)
        /\ ~isDraggingHand /\ ~IsNull(publicSnap) /\ ~IsNull(privateSnap)
        /\ privateSnap = sockPriv
        /\ Val(bridgeCall).handIndex < Len(handOrder)
        /\ handOrder[Val(bridgeCall).handIndex + 1] = Val(bridgeCall).key
        /\ IsRemoval(Val(privateSnap).hand, snap.hand, Val(bridgeCall).tileId)
        /\ ServerPrivate(snap))
       => LET shown == Displayed
              i == Val(bridgeCall).handIndex
          IN [j \in 1..Len(handOrder') |-> keyToTileId'[handOrder'[j]]] = RemoveAt(shown, i)
    ]_vars

\* ---------------------------------------------------------------- C14
\* C14: the tile id of a DISCARD that a drop or a double click sends occurs in the
\* hand of the private snapshot SocketService holds when it is sent.
C14_DiscardNamesHeldTile ==
  [][(/\ ~IsNull(bridgeCall') /\ ~IsNull(sent')
      /\ Val(sent').event = "game/action" /\ Val(sent').action.type = "DISCARD")
     => /\ ~IsNull(sockPriv)
        /\ Val(sent').action.tileId \in Range(Val(sockPriv).hand)
    ]_vars

\* ---------------------------------------------------------------- C15
\* C15: in every reachable state, isDraggingHand = false implies pendingSnap = null.
C15_QueueOnlyWhileDragging == ~isDraggingHand => IsNull(pendingSnap)

\* the B7 dragged from position 1 was released after a hand without the joker had
\* been queued: the queue is empty again and the tile now stands at position 0
C15_Witness ==
  /\ ~isDraggingHand /\ IsNull(pendingSnap)
  /\ ~IsNull(bridgeCall) /\ Val(bridgeCall).via = "drop"
  /\ Val(bridgeCall).key = B71 /\ Val(bridgeCall).handIndex = 1
  /\ handOrder = <<B71, B72>>

\* ---------------------------------------------------------------- C16
\* C16: clientSeq starts at 0; the n-th action emitted carries clientSeq = n, which
\* is the counter after an increment by 1, whatever the action and whatever became
\* of the earlier acks; 'room/join' carries no clientSeq and leaves the counter as
\* it is, as does every step that emits nothing.
C16_ClientSeqCountsActions ==
  /\ clientSeq = 0
  /\ [][/\ clientSeq' = Len(promises')
        /\ \A n \in 1..Len(promises') : promises'[n].seq = n
        /\ IF IsNull(sent')
           THEN clientSeq' = clientSeq
           ELSE IF Val(sent').event = "game/action"
           THEN /\ clientSeq' = clientSeq + 1
                /\ Val(sent').clientSeq = clientSeq'
                /\ Len(promises') = Len(promises) + 1
           ELSE /\ DOMAIN Val(sent') = {"event"}
                /\ clientSeq' = clientSeq
       ]_vars

\* the second action has just been sent with clientSeq 2, the ack of the first,
\* an action of another type, being lost
C16_Witness ==
  /\ Len(promises) = 2 /\ promises[1].type # promises[2].type
  /\ promises[1].ack = "lost"
  /\ ~IsNull(sent) /\ Val(sent).event = "game/action" /\ Val(sent).clientSeq = 2

\* ---------------------------------------------------------------- C17
\* C17: public$ and private$ hold null at first; a 'room/public' event makes its
\* snapshot the value of public$, whatever the versions of the two, and leaves
\* private$ as it is; a 'room/private' event does the same the other way round;
\* a step that changes either value sends nothing and settles no promise.
C17_SubjectsHoldLatest ==
  /\ IsNull(sockPub) /\ IsNull(sockPriv)
  /\ [][/\ \A snap \in PublicSnaps :
             ServerPublic(snap) => sockPub' = Some(snap) /\ sockPriv' = sockPriv
        /\ \A snap \in PrivateSnaps :
             ServerPrivate(snap) => sockPriv' = Some(snap) /\ sockPub' = sockPub
        /\ (sockPub' # sockPub \/ sockPriv' # sockPriv) =>
             /\ IsNull(sent') /\ UNCHANGED <<clientSeq, promises>>
             /\ \/ \E snap \in PublicSnaps : ServerPublic(snap)
                \/ \E snap \in PrivateSnaps : ServerPrivate(snap)
       ]_vars

\* the scene, in the middle of a drag, still shows a public snapshot that public$
\* held before; public$ now holds one of a lower version, and an ack has resolved
\* a promise since without touching it
C17_Witness ==
  /\ isDraggingHand /\ ~IsNull(publicSnap) /\ ~IsNull(sockPub) /\ ~IsNull(sockPriv)
  /\ Val(sockPub).version < Val(publicSnap).version
  /\ ~IsNull(pendingSnap) /\ Val(pendingSnap).pub = sockPub
  /\ Len(promises) >= 1 /\ promises[1].state = "resolved"
  /\ IsNull(sent)

\* ---------------------------------------------------------------- C18
\* the code an operation reports when a failed ack carries no error
DefaultCode(method) ==
  CASE method = "start" -> "ERR"
    [] method = "pick" -> "PICK_FAILED"
    [] method = "submitPass" -> "PASS_FAILED"
    [] method = "endGame" -> "END_FAILED"

\* C18: a step in which start, pick, submitPass or endGame begins leaves lastError
\* null; a step in which the ack of one of them arrives sets lastError to ack.error,
\* or to the operation's default code when ack.error is absent, if ack.ok is false,
\* and leaves lastError as it was if ack.ok is true.
C18_LastErrorFollowsAck ==
  [][/\ (Len(promises') = Len(promises) + 1 /\ promises'[Len(promises')].awaiter # "void") =>
          IsNull(lastError')
     /\ \A n \in 1..Len(promises) :
          (/\ promises[n].ack = "waiting" /\ promises'[n].ack = "delivered"
           /\ promises[n].awaiter # "void") =>
            LET ack == Val(promises'[n].ackMsg)
            IN IF ack.ok
               THEN lastError' = lastError
               ELSE lastError' = Some(IF IsNull(ack.error) THEN DefaultCode(promises[n].awaiter)
                                      ELSE Val(ack.error))
    ]_vars

\* pick is still waiting for its ack when the ack of the later submitPass arrives,
\* failed and without error
C18_Witness ==
  /\ Len(promises) = 2
  /\ promises[1].awaiter = "pick" /\ promises[1].ack = "waiting"
  /\ promises[2].awaiter = "submitPass" /\ promises[2].ack = "delivered"
  /\ ~Val(promises[2].ackMsg).ok /\ IsNull(Val(promises[2].ackMsg).error)
  /\ lastError = Some("PASS_FAILED")

====
